---- MODULE Spec2Model ----
(***************************************************************************)
(* Model of the JSON semantic diff library (src/src/lib/jsonDiff.ts) and   *)
(* of the callers that feed it and read its result (handleCompare in       *)
(* src/src/pages/Index.tsx, getDiffStats in DiffViewer, findDiffByPath in  *)
(* InlineDiffEditor).                                                      *)
(*                                                                         *)
(* A JavaScript value is a record [k, v]: k is the kind of the value and v *)
(* its content.  An array holds a sequence of values (index i of the code  *)
(* is position i+1 here); an object holds its own enumerable properties as *)
(* a sequence of <<key, value>> entries in Object.keys order.  A plain     *)
(* object also inherits the properties of Object.prototype, which the `in` *)
(* operator and property reads see: they are modelled by                   *)
(* ObjectPrototypeKeys and Builtin.                                        *)
(***************************************************************************)
EXTENDS Integers, Sequences, FiniteSets, TLC

VARIABLES oldObj, newObj, diffs, stats, pc,
          leftJson, rightJson, isComparing, toast, handler, engineCalled

vars == <<oldObj, newObj, diffs, stats, pc,
          leftJson, rightJson, isComparing, toast, handler, engineCalled>>

\* what the comparison steps of the diff library leave alone
page == <<leftJson, rightJson, isComparing, toast, handler, engineCalled>>

(***************************************************************************)
(* Bounds of the explored input space.                                     *)
(***************************************************************************)
MaxLen == 2

MaxKeys == 2

(***************************************************************************)
(* Values.                                                                 *)
(***************************************************************************)
Null == [k |-> "null"]

Bool(b) == [k |-> "boolean", v |-> b]

Num(n) == [k |-> "number", v |-> n]

Str(s) == [k |-> "string", v |-> s]

Arr(s) == [k |-> "array", v |-> s]

Obj(e) == [k |-> "object", v |-> e]

\* A built-in method found on Object.prototype (one function object per name).
Builtin(name) == [k |-> "function", v |-> name]

\* The function-valued properties every plain object inherits.  (The accessor
\* __proto__, whose value is the prototype object itself, is left out: no
\* explored document uses it as a key.)
ObjectPrototypeKeys ==
  {"constructor", "hasOwnProperty", "isPrototypeOf", "propertyIsEnumerable",
   "toLocaleString", "toString", "valueOf", "__defineGetter__",
   "__defineSetter__", "__lookupGetter__", "__lookupSetter__"}

\* typeof value
TypeOf(value) ==
  IF value.k \in {"null", "array", "object"} THEN "object" ELSE value.k

\* Array.isArray(value)
IsArray(value) == value.k = "array"

\* a === b: primitives by kind and content, functions and containers by
\* reference.  Two containers met by the comparison always come from two
\* separate parses, so they are never the same reference.
StrictEq(a, b) ==
  /\ a.k = b.k
  /\ a.k \notin {"array", "object"}
  /\ (a.k = "null" \/ a.v = b.v)

\* Object.keys(obj), as a sequence
ObjectKeys(obj) == [i \in 1..Len(obj.v) |-> obj.v[i][1]]

\* obj.hasOwnProperty(key)
HasOwn(obj, key) == \E i \in 1..Len(obj.v) : obj.v[i][1] = key

\* key in obj
KeyIn(key, obj) == HasOwn(obj, key) \/ key \in ObjectPrototypeKeys

\* obj[key], for a key that is `in` obj
Get(obj, key) ==
  IF HasOwn(obj, key)
  THEN obj.v[CHOOSE i \in 1..Len(obj.v) : obj.v[i][1] = key][2]
  ELSE Builtin(key)

\* keysB.includes(key)
Includes(keys, key) == \E i \in 1..Len(keys) : keys[i] = key

(***************************************************************************)
(* String helpers: `${i}` for an index, and the concatenation of the       *)
(* sequences a loop pushes.                                                *)
(***************************************************************************)
Digits == <<"0", "1", "2", "3", "4", "5", "6", "7", "8", "9">>

RECURSIVE IntToString(_)
IntToString(n) ==
  IF n < 10 THEN Digits[n + 1]
  ELSE IntToString(n \div 10) \o Digits[(n % 10) + 1]

RECURSIVE Splice(_)
Splice(seqs) ==
  IF seqs = <<>> THEN <<>> ELSE Head(seqs) \o Splice(Tail(seqs))

\* new Set([...a, ...b]) iterated: first occurrences, in order
RECURSIVE Dedupe(_)
Dedupe(s) ==
  IF s = <<>> THEN <<>>
  ELSE LET init == Dedupe(SubSeq(s, 1, Len(s) - 1))
           last == s[Len(s)]
       IN  IF Includes(init, last) THEN init ELSE Append(init, last)

(***************************************************************************)
(* deepEqual                                                               *)
(***************************************************************************)
\* mutant: the key counts of two objects are not compared
RECURSIVE deepEqual_noKeyCount(_, _)
deepEqual_noKeyCount(a, b) ==
  IF StrictEq(a, b) THEN TRUE
  ELSE IF a.k = "null" \/ b.k = "null" THEN FALSE
  ELSE IF TypeOf(a) # TypeOf(b) THEN FALSE
  ELSE IF TypeOf(a) = "object" THEN
    IF IsArray(a) # IsArray(b) THEN FALSE
    ELSE IF IsArray(a) THEN
      /\ Len(a.v) = Len(b.v)
      /\ \A i \in 1..Len(a.v) : deepEqual_noKeyCount(a.v[i], b.v[i])
    ELSE
      LET keysA == ObjectKeys(a)
          keysB == ObjectKeys(b)
      IN  \A i \in 1..Len(keysA) :
            /\ Includes(keysB, keysA[i])
            /\ deepEqual_noKeyCount(Get(a, keysA[i]), Get(b, keysA[i]))
  ELSE FALSE

RECURSIVE deepEqual(_, _)
deepEqual(a, b) ==
  IF StrictEq(a, b) THEN TRUE
  ELSE IF a.k = "null" \/ b.k = "null" THEN FALSE
  ELSE IF TypeOf(a) # TypeOf(b) THEN FALSE
  ELSE IF TypeOf(a) = "object" THEN
    IF IsArray(a) # IsArray(b) THEN FALSE
    ELSE IF IsArray(a) THEN
      /\ Len(a.v) = Len(b.v)
      /\ \A i \in 1..Len(a.v) : deepEqual(a.v[i], b.v[i])
    ELSE
      LET keysA == ObjectKeys(a)
          keysB == ObjectKeys(b)
      IN  /\ Len(keysA) = Len(keysB)
          /\ \A i \in 1..Len(keysA) :
               /\ Includes(keysB, keysA[i])
               /\ deepEqual(Get(a, keysA[i]), Get(b, keysA[i]))
  ELSE FALSE

\* getValueType(value)
getValueType(value) ==
  IF value.k = "null" THEN "null"
  ELSE IF IsArray(value) THEN "array"
  ELSE TypeOf(value)

(***************************************************************************)
(* formatValue.  String(value) of a non-negative integer is its decimal    *)
(* text, of a boolean true or false, of a built-in function its source.    *)
(***************************************************************************)
\* String(value) for a value that is neither null, a string nor an object
StringOf(value) ==
  CASE value.k = "number" -> IntToString(value.v)
    [] value.k = "boolean" -> (IF value.v THEN "true" ELSE "false")
    [] value.k = "function" -> "function " \o value.v \o "() { [native code] }"

\* mutant: without the Array.isArray test an array is shown as an object
formatValue_noArrayTest(value) ==
  IF value.k = "null" THEN "null"
  ELSE IF value.k = "undefined" THEN "undefined"
  ELSE IF TypeOf(value) = "string" THEN "\"" \o value.v \o "\""
  ELSE IF TypeOf(value) = "object" THEN "{" \o IntToString(Len(value.v)) \o " keys}"
  ELSE StringOf(value)

formatValue(value) ==
  IF value.k = "null" THEN "null"
  ELSE IF value.k = "undefined" THEN "undefined"
  ELSE IF TypeOf(value) = "string" THEN "\"" \o value.v \o "\""
  ELSE IF TypeOf(value) = "object" THEN
    IF IsArray(value) THEN "[" \o IntToString(Len(value.v)) \o " items]"
    ELSE "{" \o IntToString(Len(ObjectKeys(value))) \o " keys}"
  ELSE StringOf(value)

(***************************************************************************)
(* compareJSON, by parts.                                                  *)
(***************************************************************************)
\* mutant: the path as given, without the default
nodePath_noDefault(path) == path

\* path || "/"
nodePath(path) == IF path = "" THEN "/" ELSE path

\* mutant: the index counted from 1
itemPath_oneBased(path, i) == path \o "[" \o IntToString(i + 1) \o "]"

\* `${path}[${i}]`, i the 0-based index
itemPath(path, i) == path \o "[" \o IntToString(i) \o "]"

\* path ? `${path}.${key}` : key
keyPath(path, key) == IF path # "" THEN path \o "." \o key ELSE key

\* both are primitive or null
bothPrimitive(o, n) ==
  /\ (o.k = "null" \/ TypeOf(o) # "object")
  /\ (n.k = "null" \/ TypeOf(n) # "object")

\* mutant: the test of deepEqual without its negation
primitiveNode_inverted(o, n, path) ==
  IF deepEqual(o, n)
  THEN [path |-> nodePath(path), type |-> "modified", oldValue |-> o, newValue |-> n]
  ELSE [path |-> nodePath(path), type |-> "unchanged", oldValue |-> o, newValue |-> n]

\* the node pushed for two primitives
primitiveNode(o, n, path) ==
  IF ~deepEqual(o, n)
  THEN [path |-> nodePath(path), type |-> "modified", oldValue |-> o, newValue |-> n]
  ELSE [path |-> nodePath(path), type |-> "unchanged", oldValue |-> o, newValue |-> n]

\* mutant: the new value stored in both fields
mismatchNode_newTwice(o, n, path) ==
  [path |-> nodePath(path), type |-> "modified", oldValue |-> n, newValue |-> n]

\* the node pushed when the types don't match
mismatchNode(o, n, path) ==
  [path |-> nodePath(path), type |-> "modified", oldValue |-> o, newValue |-> n]

\* mutant: the added child also fills oldValue
addedNode_bothValues(p, value) ==
  [path |-> p, type |-> "added", oldValue |-> value, newValue |-> value]

\* the child pushed for an index or key of the new side only
addedNode(p, value) == [path |-> p, type |-> "added", newValue |-> value]

\* mutant: the removed child stores its value in the newValue field
removedNode_newValue(p, value) == [path |-> p, type |-> "removed", newValue |-> value]

\* the child pushed for an index or key of the old side only
removedNode(p, value) == [path |-> p, type |-> "removed", oldValue |-> value]

\* mutant: only a "modified" child marks the container
containerType_onlyModified(children) ==
  IF \E i \in 1..Len(children) : children[i].type = "modified"
  THEN "modified" ELSE "unchanged"

\* mutant: every() where the code has some()
containerType_every(children) ==
  IF \A i \in 1..Len(children) : children[i].type # "unchanged"
  THEN "modified" ELSE "unchanged"

\* children.some((c) => c.type !== "unchanged") ? "modified" : "unchanged"
containerType(children) ==
  IF \E i \in 1..Len(children) : children[i].type # "unchanged"
  THEN "modified" ELSE "unchanged"

\* the node pushed for two arrays or two objects
containerNode(o, n, path, children) ==
  [path |-> nodePath(path), type |-> containerType(children),
   oldValue |-> o, newValue |-> n, children |-> children]

\* mutant: Math.min where the code has Math.max
maxLength_min(o, n) == IF Len(o.v) <= Len(n.v) THEN Len(o.v) ELSE Len(n.v)

\* Math.max(oldObj.length, newObj.length)
maxLength(o, n) == IF Len(o.v) >= Len(n.v) THEN Len(o.v) ELSE Len(n.v)

\* the keys the object loop visits, in order
allKeys(o, n) == Dedupe(ObjectKeys(o) \o ObjectKeys(n))

RECURSIVE compareJSON(_, _, _)
compareJSON(o, n, path) ==
  IF bothPrimitive(o, n) THEN <<primitiveNode(o, n, path)>>
  ELSE IF getValueType(o) # getValueType(n) THEN <<mismatchNode(o, n, path)>>
  ELSE IF IsArray(o) /\ IsArray(n) THEN
    LET item(i) ==
          IF i >= Len(o.v) THEN <<addedNode(itemPath(path, i), n.v[i + 1])>>
          ELSE IF i >= Len(n.v) THEN <<removedNode(itemPath(path, i), o.v[i + 1])>>
          ELSE compareJSON(o.v[i + 1], n.v[i + 1], itemPath(path, i))
        children == Splice([j \in 1..maxLength(o, n) |-> item(j - 1)])
    IN  <<containerNode(o, n, path, children)>>
  ELSE IF TypeOf(o) = "object" /\ TypeOf(n) = "object" THEN
    LET keys == allKeys(o, n)
        entry(key) ==
          LET hasOld == KeyIn(key, o)
              hasNew == KeyIn(key, n)
          IN  IF ~hasOld /\ hasNew THEN <<addedNode(keyPath(path, key), Get(n, key))>>
              ELSE IF hasOld /\ ~hasNew THEN <<removedNode(keyPath(path, key), Get(o, key))>>
              ELSE compareJSON(Get(o, key), Get(n, key), keyPath(path, key))
        children == Splice([j \in 1..Len(keys) |-> entry(keys[j])])
    IN  <<containerNode(o, n, path, children)>>
  ELSE <<>>

(***************************************************************************)
(* getDiffStats                                                            *)
(***************************************************************************)
\* node.children is set (an empty list is set too)
hasChildren(node) == "children" \in DOMAIN node

\* mutant: case "added" without its break falls through to "removed"
countNode_fallThrough(acc, node) ==
  IF node.type = "added"
  THEN [acc EXCEPT !.added = @ + 1, !.removed = @ + 1]
  ELSE [acc EXCEPT ![node.type] = @ + 1]

\* the switch on node.type: one counter goes up by one
countNode(acc, node) == [acc EXCEPT ![node.type] = @ + 1]

RECURSIVE countDiffs(_, _)
countDiffs(nodes, acc) ==
  IF nodes = <<>> THEN acc
  ELSE LET node == Head(nodes)
           counted == countNode(acc, node)
           below == IF hasChildren(node) THEN countDiffs(node.children, counted)
                    ELSE counted
       IN  countDiffs(Tail(nodes), below)

\* mutant: the top-level nodes alone are counted
getDiffStats_topLevel(forest) ==
  countDiffs([i \in 1..Len(forest) |-> [type |-> forest[i].type]],
             [added |-> 0, removed |-> 0, modified |-> 0, unchanged |-> 0])

getDiffStats(forest) ==
  countDiffs(forest, [added |-> 0, removed |-> 0, modified |-> 0, unchanged |-> 0])

(***************************************************************************)
(* findDiffByPath: the first node, parents before children, at the path.   *)
(***************************************************************************)
NotFound == [path |-> "", type |-> "null"]

RECURSIVE findDiffByPath(_, _)
findDiffByPath(nodes, path) ==
  IF nodes = <<>> THEN NotFound
  ELSE LET node == Head(nodes)
           found == IF hasChildren(node) THEN findDiffByPath(node.children, path)
                    ELSE NotFound
       IN  IF node.path = path THEN node
           ELSE IF found # NotFound THEN found
           ELSE findDiffByPath(Tail(nodes), path)

(***************************************************************************)
(* JSON text.  A text is the sequence of its tokens: punctuation, scalar   *)
(* literals (null, true, false, a number, a string), runs of whitespace,   *)
(* and junk (characters that begin no JSON token).  The empty text is <<>>.*)
(***************************************************************************)
Punct(s) == [t |-> "punct", s |-> s]

Literal(value) == [t |-> "literal", v |-> value]

Space(s) == [t |-> "space", s |-> s]

Junk == [t |-> "junk", s |-> "?"]

IsPunct(tok, s) == tok.t = "punct" /\ tok.s = s

\* jsonString.trim() === ""
IsBlank(text) == \A i \in 1..Len(text) : text[i].t = "space"

\* the tokens JSON.parse reads: whitespace between tokens is skipped
Significant(text) == SelectSeq(text, LAMBDA tok : tok.t # "space")

NoParse == [ok |-> FALSE]

\* obj[key] = value while parsing: a repeated key keeps its place, the last
\* value wins
SetEntry(entries, key, value) ==
  IF \E i \in 1..Len(entries) : entries[i][1] = key
  THEN [i \in 1..Len(entries) |->
          IF entries[i][1] = key THEN <<key, value>> ELSE entries[i]]
  ELSE Append(entries, <<key, value>>)

RECURSIVE parseValue(_, _)
RECURSIVE parseElements(_, _, _)
RECURSIVE parseMembers(_, _, _)
\* the value that starts at token i
parseValue(toks, i) ==
  IF i > Len(toks) THEN NoParse
  ELSE IF toks[i].t = "literal"
    THEN [ok |-> TRUE, value |-> toks[i].v, next |-> i + 1]
  ELSE IF IsPunct(toks[i], "[")
    THEN IF i + 1 <= Len(toks) /\ IsPunct(toks[i + 1], "]")
         THEN [ok |-> TRUE, value |-> Arr(<<>>), next |-> i + 2]
         ELSE parseElements(toks, i + 1, <<>>)
  ELSE IF IsPunct(toks[i], "{")
    THEN IF i + 1 <= Len(toks) /\ IsPunct(toks[i + 1], "}")
         THEN [ok |-> TRUE, value |-> Obj(<<>>), next |-> i + 2]
         ELSE parseMembers(toks, i + 1, <<>>)
  ELSE NoParse

\* the elements of an array from token i on, acc the elements read so far
parseElements(toks, i, acc) ==
  LET e == parseValue(toks, i)
  IN  IF ~e.ok \/ e.next > Len(toks) THEN NoParse
      ELSE IF IsPunct(toks[e.next], ",")
        THEN parseElements(toks, e.next + 1, Append(acc, e.value))
      ELSE IF IsPunct(toks[e.next], "]")
        THEN [ok |-> TRUE, value |-> Arr(Append(acc, e.value)), next |-> e.next + 1]
      ELSE NoParse

\* the members of an object from token i on, acc the entries read so far
parseMembers(toks, i, acc) ==
  IF i + 1 > Len(toks) THEN NoParse
  ELSE IF ~(toks[i].t = "literal" /\ toks[i].v.k = "string") THEN NoParse
  ELSE IF ~IsPunct(toks[i + 1], ":") THEN NoParse
  ELSE
    LET m == parseValue(toks, i + 2)
    IN  IF ~m.ok \/ m.next > Len(toks) THEN NoParse
        ELSE IF IsPunct(toks[m.next], ",")
          THEN parseMembers(toks, m.next + 1, SetEntry(acc, toks[i].v.v, m.value))
        ELSE IF IsPunct(toks[m.next], "}")
          THEN [ok |-> TRUE, value |-> Obj(SetEntry(acc, toks[i].v.v, m.value)),
                next |-> m.next + 1]
        ELSE NoParse

\* JSON.parse(text): one value and nothing after it, or a SyntaxError
JSONparse(text) ==
  LET toks == Significant(text)
      r == parseValue(toks, 1)
  IN  IF r.ok /\ r.next = Len(toks) + 1
      THEN [ok |-> TRUE, value |-> r.value]
      ELSE NoParse

RECURSIVE Spaces(_)
Spaces(n) == IF n = 0 THEN "" ELSE " " \o Spaces(n - 1)

\* the line break and indentation JSON.stringify writes at a nesting depth
Newline(indent, depth) == Space("\n" \o Spaces(indent * depth))

\* JSON.stringify(value, null, indent); indent 0 writes no whitespace
RECURSIVE stringify(_, _, _)
stringify(value, indent, depth) ==
  LET gap(d) == IF indent = 0 THEN <<>> ELSE <<Newline(indent, d)>>
      comma(i, n) == IF i < n THEN <<Punct(",")>> ELSE <<>>
  IN  IF value.k = "array" THEN
        IF Len(value.v) = 0 THEN <<Punct("["), Punct("]")>>
        ELSE <<Punct("[")>>
               \o Splice([i \in 1..Len(value.v) |->
                    gap(depth + 1) \o stringify(value.v[i], indent, depth + 1)
                      \o comma(i, Len(value.v))])
               \o gap(depth) \o <<Punct("]")>>
      ELSE IF value.k = "object" THEN
        IF Len(value.v) = 0 THEN <<Punct("{"), Punct("}")>>
        ELSE <<Punct("{")>>
               \o Splice([i \in 1..Len(value.v) |->
                    gap(depth + 1) \o <<Literal(Str(value.v[i][1])), Punct(":")>>
                      \o (IF indent = 0 THEN <<>> ELSE <<Space(" ")>>)
                      \o stringify(value.v[i][2], indent, depth + 1)
                      \o comma(i, Len(value.v))])
               \o gap(depth) \o <<Punct("}")>>
      ELSE <<Literal(value)>>

\* indent: number = 2
DefaultIndent == 2

\* formatJSON(obj, indent)
formatJSON(obj, indent) == stringify(obj, indent, 0)

\* minifyJSON(obj)
minifyJSON(obj) == stringify(obj, 0, 0)

\* validateJSON(jsonString)
validateJSON(jsonString) ==
  IF jsonString = <<>> \/ IsBlank(jsonString)
  THEN [isValid |-> FALSE, error |-> "Empty JSON input"]
  ELSE LET parsed == JSONparse(jsonString)
       IN  IF parsed.ok
           THEN [isValid |-> TRUE, parsed |-> parsed.value]
           ELSE [isValid |-> FALSE, error |-> "SyntaxError"]

\* whether a parsed value passes a JavaScript truth test
Truthy(value) ==
  CASE value.k = "null" -> FALSE
    [] value.k = "boolean" -> value.v
    [] value.k = "number" -> value.v # 0
    [] value.k = "string" -> value.v # ""
    [] OTHER -> TRUE

\* toast({title, description, variant})
Toast(title, description, variant) ==
  [title |-> title, description |-> description, variant |-> variant]

NoToast == Toast("", "", "")

(***************************************************************************)
(* The inputs explored: the values the two parsed documents range over.    *)
(***************************************************************************)
SeqsUpTo(S, n) == UNION {[1..m -> S] : m \in 0..n}

\* entry lists with pairwise distinct keys
EntriesUpTo(K, S, n) ==
  {e \in SeqsUpTo(K \X S, n) :
     \A i, j \in 1..Len(e) : e[i][1] = e[j][1] => i = j}

Scalars == {Null, Bool(TRUE), Num(1), Num(2), Str("a")}

Numbers == {Num(1), Num(2)}

\* "" and a name of Object.prototype among ordinary keys
Keys == {"a", "", "toString"}

NestedKeys == {"a", "b"}

FlatValues ==
  Scalars
    \cup {Arr(s) : s \in SeqsUpTo(Numbers, MaxLen)}
    \cup {Obj(e) : e \in EntriesUpTo(Keys, Numbers, MaxKeys)}

Inner ==
  {Num(1), Arr(<<Num(1)>>), Obj(<<<<"b", Num(1)>>>>), Obj(<<<<"b", Num(2)>>>>)}

NestedValues ==
  {Arr(s) : s \in SeqsUpTo(Inner, MaxLen)}
    \cup {Obj(e) : e \in EntriesUpTo(NestedKeys, Inner, MaxKeys)}

Values == FlatValues \cup NestedValues

(***************************************************************************)
(* The page: two parsed documents, the stored diff, the counts shown.      *)
(***************************************************************************)
NoStats == [added |-> 0, removed |-> 0, modified |-> 0, unchanged |-> 0]

Init ==
  /\ oldObj \in Values
  /\ newObj \in Values
  /\ diffs = <<>>
  /\ stats = NoStats
  /\ pc = "edit"
  /\ leftJson = formatJSON(oldObj, DefaultIndent)
  /\ rightJson = formatJSON(newObj, DefaultIndent)
  /\ isComparing = FALSE
  /\ toast = NoToast
  /\ handler = "none"
  /\ engineCalled = FALSE

\* handleCompare with two valid documents: setDiffs(compareJSON(left, right))
Compare ==
  /\ pc = "edit"
  /\ diffs' = compareJSON(oldObj, newObj, "")
  /\ pc' = "compared"
  /\ isComparing' = FALSE
  /\ toast' = Toast("Comparison Complete", "JSON objects compared successfully", "")
  /\ handler' = "handleCompare"
  /\ engineCalled' = TRUE
  /\ UNCHANGED <<oldObj, newObj, stats, leftJson, rightJson>>

\* DiffViewer renders the stored diff: getDiffStats(diffs)
Render ==
  /\ pc = "compared"
  /\ stats' = getDiffStats(diffs)
  /\ pc' = "rendered"
  /\ UNCHANGED <<oldObj, newObj, diffs>>
  /\ UNCHANGED page

Next == Compare \/ Render

Spec == Init /\ [][Next]_vars

(***************************************************************************)
(* The page handlers: the two editor texts are edited, cleared, formatted, *)
(* loaded from the sample and compared.  oldObj and newObj are here the    *)
(* arguments of the last compareJSON call.                                 *)
(***************************************************************************)
Undefined == [k |-> "undefined"]

\* the values whose texts are typed into the editors
PageValues ==
  {Null, Bool(FALSE), Num(0), Str(""), Obj(<<<<"a", Num(1)>>>>)}

\* texts JSON.parse rejects: {"a":   and   [1,] ?
Malformed ==
  { <<Punct("{"), Literal(Str("a")), Punct(":")>>,
    <<Punct("["), Literal(Num(1)), Punct(","), Punct("]"), Space(" "), Junk>> }

\* e.target.value: the empty text, a blank text, valid and malformed texts
Texts ==
  {<<>>, <<Space(" ")>>} \cup {minifyJSON(v) : v \in PageValues} \cup Malformed

\* getSampleJSON(): const left
sampleLeft ==
  Obj(<< <<"name", Str("John Doe")>>,
         <<"age", Num(30)>>,
         <<"email", Str("john@example.com")>>,
         <<"address", Obj(<< <<"street", Str("123 Main St")>>,
                             <<"city", Str("New York")>>,
                             <<"country", Str("USA")>> >>)>>,
         <<"hobbies", Arr(<<Str("reading"), Str("gaming"), Str("cooking")>>)>>,
         <<"settings", Obj(<< <<"notifications", Bool(TRUE)>>,
                              <<"theme", Str("dark")>> >>)>> >>)

\* getSampleJSON(): const right
sampleRight ==
  Obj(<< <<"name", Str("John Doe")>>,
         <<"age", Num(31)>>,
         <<"email", Str("john.doe@example.com")>>,
         <<"address", Obj(<< <<"street", Str("123 Main St")>>,
                             <<"city", Str("San Francisco")>>,
                             <<"state", Str("CA")>>,
                             <<"country", Str("USA")>> >>)>>,
         <<"hobbies", Arr(<<Str("reading"), Str("gaming"), Str("photography")>>)>>,
         <<"settings", Obj(<< <<"notifications", Bool(FALSE)>>,
                              <<"theme", Str("dark")>>,
                              <<"language", Str("en")>> >>)>> >>)

\* getSampleJSON()
getSampleJSON ==
  [left |-> formatJSON(sampleLeft, DefaultIndent),
   right |-> formatJSON(sampleRight, DefaultIndent)]

\* useState(""), useState(""), useState([]), useState(false)
PageInit ==
  /\ leftJson = <<>>
  /\ rightJson = <<>>
  /\ diffs = <<>>
  /\ isComparing = FALSE
  /\ toast = NoToast
  /\ handler = "none"
  /\ engineCalled = FALSE
  /\ oldObj = Undefined
  /\ newObj = Undefined
  /\ stats = NoStats
  /\ pc = "edit"

\* the left editor's onChange={setLeftJson}
setLeftJson(value) ==
  /\ leftJson' = value
  /\ handler' = "setLeftJson"
  /\ engineCalled' = FALSE
  /\ UNCHANGED <<rightJson, diffs, isComparing, toast, oldObj, newObj, stats, pc>>

\* the right editor's onChange={setRightJson}
setRightJson(value) ==
  /\ rightJson' = value
  /\ handler' = "setRightJson"
  /\ engineCalled' = FALSE
  /\ UNCHANGED <<leftJson, diffs, isComparing, toast, oldObj, newObj, stats, pc>>

\* an editor's handleClear, behind disabled={!value}
handleClear(side) ==
  /\ IF side = "left" THEN leftJson # <<>> ELSE rightJson # <<>>
  /\ IF side = "left"
     THEN leftJson' = <<>> /\ UNCHANGED rightJson
     ELSE rightJson' = <<>> /\ UNCHANGED leftJson
  /\ toast' = Toast("Cleared", "Input has been cleared", "")
  /\ handler' = "handleClear(" \o side \o ")"
  /\ engineCalled' = FALSE
  /\ UNCHANGED <<diffs, isComparing, oldObj, newObj, stats, pc>>

\* handleLoadSample
handleLoadSample ==
  /\ leftJson' = getSampleJSON.left
  /\ rightJson' = getSampleJSON.right
  /\ toast' = Toast("Sample Loaded", "Sample JSON data loaded for comparison", "")
  /\ handler' = "handleLoadSample"
  /\ engineCalled' = FALSE
  /\ UNCHANGED <<diffs, isComparing, oldObj, newObj, stats, pc>>

\* handleCompare with the early return on the first invalid side dropped
\* before setIsComparing(false)
handleCompare_staysComparing ==
  /\ leftJson # <<>> /\ rightJson # <<>> /\ ~isComparing
  /\ LET leftValidation == validateJSON(leftJson)
         rightValidation == validateJSON(rightJson)
     IN  IF ~leftValidation.isValid
         THEN /\ toast' = Toast("Invalid JSON",
                                "Original JSON: " \o leftValidation.error,
                                "destructive")
              /\ isComparing' = TRUE
              /\ engineCalled' = FALSE
              /\ UNCHANGED <<diffs, oldObj, newObj>>
         ELSE IF ~rightValidation.isValid
         THEN /\ toast' = Toast("Invalid JSON",
                                "Modified JSON: " \o rightValidation.error,
                                "destructive")
              /\ isComparing' = TRUE
              /\ engineCalled' = FALSE
              /\ UNCHANGED <<diffs, oldObj, newObj>>
         ELSE /\ oldObj' = leftValidation.parsed
              /\ newObj' = rightValidation.parsed
              /\ diffs' = compareJSON(leftValidation.parsed,
                                      rightValidation.parsed, "")
              /\ toast' = Toast("Comparison Complete",
                                "JSON objects compared successfully", "")
              /\ isComparing' = FALSE
              /\ engineCalled' = TRUE
  /\ handler' = "handleCompare"
  /\ UNCHANGED <<leftJson, rightJson, stats, pc>>

\* handleCompare, behind disabled={!leftJson || !rightJson || isComparing}
handleCompare ==
  /\ leftJson # <<>> /\ rightJson # <<>> /\ ~isComparing
  /\ LET leftValidation == validateJSON(leftJson)
         rightValidation == validateJSON(rightJson)
     IN  IF ~leftValidation.isValid
         THEN /\ toast' = Toast("Invalid JSON",
                                "Original JSON: " \o leftValidation.error,
                                "destructive")
              /\ isComparing' = FALSE
              /\ engineCalled' = FALSE
              /\ UNCHANGED <<diffs, oldObj, newObj>>
         ELSE IF ~rightValidation.isValid
         THEN /\ toast' = Toast("Invalid JSON",
                                "Modified JSON: " \o rightValidation.error,
                                "destructive")
              /\ isComparing' = FALSE
              /\ engineCalled' = FALSE
              /\ UNCHANGED <<diffs, oldObj, newObj>>
         ELSE /\ oldObj' = leftValidation.parsed
              /\ newObj' = rightValidation.parsed
              /\ diffs' = compareJSON(leftValidation.parsed,
                                      rightValidation.parsed, "")
              /\ toast' = Toast("Comparison Complete",
                                "JSON objects compared successfully", "")
              /\ isComparing' = FALSE
              /\ engineCalled' = TRUE
  /\ handler' = "handleCompare"
  /\ UNCHANGED <<leftJson, rightJson, stats, pc>>

\* handleFormat(side), behind disabled={!leftJson} and disabled={!rightJson}
handleFormat(side) ==
  /\ IF side = "left" THEN leftJson # <<>> ELSE rightJson # <<>>
  /\ LET jsonString == IF side = "left" THEN leftJson ELSE rightJson
         validation == validateJSON(jsonString)
     IN  IF validation.isValid /\ Truthy(validation.parsed)
         THEN /\ IF side = "left"
                 THEN /\ leftJson' = formatJSON(validation.parsed, DefaultIndent)
                      /\ UNCHANGED rightJson
                 ELSE /\ rightJson' = formatJSON(validation.parsed, DefaultIndent)
                      /\ UNCHANGED leftJson
              /\ toast' = Toast("Formatted", "JSON has been formatted", "")
         ELSE /\ toast' = Toast("Format Failed", "Cannot format invalid JSON",
                                "destructive")
              /\ UNCHANGED <<leftJson, rightJson>>
  /\ handler' = "handleFormat(" \o side \o ")"
  /\ engineCalled' = FALSE
  /\ UNCHANGED <<diffs, isComparing, oldObj, newObj, stats, pc>>

Sides == {"left", "right"}

PageNext ==
  \/ \E value \in Texts : setLeftJson(value)
  \/ \E value \in Texts : setRightJson(value)
  \/ \E side \in Sides : handleClear(side)
  \/ handleLoadSample
  \/ handleCompare
  \/ \E side \in Sides : handleFormat(side)

PageSpec == PageInit /\ [][PageNext]_vars

(***************************************************************************)
(* Vocabulary of the properties.                                           *)
(***************************************************************************)
Compared == pc \in {"compared", "rendered"}

Has(x, field) == field \in DOMAIN x

Both(x) == Has(x, "oldValue") /\ Has(x, "newValue")

IsContainer(value) == value.k \in {"array", "object"}

DiffTypes == {"added", "removed", "modified", "unchanged"}

\* every node of a forest, parents before children
RECURSIVE NodesOf(_)
NodesOf(forest) ==
  IF forest = <<>> THEN <<>>
  ELSE LET x == Head(forest)
       IN  <<x>> \o (IF Has(x, "children") THEN NodesOf(x.children) ELSE <<>>)
               \o NodesOf(Tail(forest))

Tree == NodesOf(diffs)

Positions == 1..Len(Tree)

\* the path argument of the call that made node x: its path, or "" when the
\* path shown is the default "/"
RawPaths(x) == IF x.path = "/" THEN {"", "/"} ELSE {x.path}

OwnKeySet(obj) == {obj.v[i][1] : i \in 1..Len(obj.v)}

OwnValue(obj, key) == obj.v[CHOOSE i \in 1..Len(obj.v) : obj.v[i][1] = key][2]

\* equality of two values as JSON documents
RECURSIVE SameValue(_, _)
SameValue(a, b) ==
  /\ a.k = b.k
  /\ CASE a.k = "null" -> TRUE
       [] a.k = "array" ->
            /\ Len(a.v) = Len(b.v)
            /\ \A i \in 1..Len(a.v) : SameValue(a.v[i], b.v[i])
       [] a.k = "object" ->
            /\ OwnKeySet(a) = OwnKeySet(b)
            /\ \A key \in OwnKeySet(a) : SameValue(OwnValue(a, key), OwnValue(b, key))
       [] OTHER -> a.v = b.v

AllUnchanged(children) == \A i \in 1..Len(children) : children[i].type = "unchanged"

(***************************************************************************)
(* C1 - Reflexivity: when both documents are the same value v, every node  *)
(* of compareJSON(v, v, ""), the top-level node and all its descendants,   *)
(* has type "unchanged".                                                   *)
(***************************************************************************)
C1_Reflexivity ==
  (Compared /\ oldObj = newObj) =>
    /\ Len(diffs) = 1
    /\ \A i \in Positions : Tree[i].type = "unchanged"

\* a nested document compared with itself: the root, a container below it
\* and a leaf below that
C1_Witness ==
  /\ Compared
  /\ oldObj = newObj
  /\ \E i \in Positions :
       /\ i > 1
       /\ Has(Tree[i], "children")
       /\ Len(Tree[i].children) > 0

(***************************************************************************)
(* C2 - Symmetry of shape: compareJSON(a, b, "") and compareJSON(b, a, "") *)
(* hold the same paths; a node "added" in one is "removed" at the same     *)
(* path in the other, a "modified" or "unchanged" node keeps its type, and *)
(* the old and new values are exchanged.                                   *)
(***************************************************************************)
\* a node without its children; an absent value is the empty sequence
Shallow(x) ==
  [path |-> x.path, type |-> x.type,
   old |-> IF Has(x, "oldValue") THEN <<x.oldValue>> ELSE <<>>,
   new |-> IF Has(x, "newValue") THEN <<x.newValue>> ELSE <<>>,
   inner |-> IF Has(x, "children") THEN <<Len(x.children)>> ELSE <<>>]

Mirror(s) ==
  [path |-> s.path,
   type |-> CASE s.type = "added" -> "removed"
              [] s.type = "removed" -> "added"
              [] OTHER -> s.type,
   old |-> s.new, new |-> s.old, inner |-> s.inner]

ShallowSet(forest) ==
  LET nodes == NodesOf(forest) IN {Shallow(nodes[i]) : i \in 1..Len(nodes)}

C2_Symmetry ==
  Compared =>
    LET back == compareJSON(newObj, oldObj, "")
    IN  /\ Len(NodesOf(back)) = Len(Tree)
        /\ ShallowSet(back) = {Mirror(s) : s \in ShallowSet(diffs)}

\* a comparison with an added, a removed and a modified node
C2_Witness ==
  /\ Compared
  /\ \E i, j, l \in Positions :
       /\ Tree[i].type = "added"
       /\ Tree[j].type = "removed"
       /\ Tree[l].type = "modified" /\ ~Has(Tree[l], "children")

(***************************************************************************)
(* C3 - Classification: a leaf that carries both values is "unchanged" iff *)
(* the two values are equal as JSON documents, a node with a children list *)
(* is "unchanged" iff all its children are, and otherwise the node is      *)
(* "modified"; "added" and "removed" occur only as the child of a          *)
(* container, for an index or key that one side alone has.                 *)
(***************************************************************************)
\* the values one side alone has at the container node x
OnlyIn(x, mine, other) ==
  IF mine.k = "array"
  THEN {mine.v[i] : i \in (Len(other.v) + 1)..Len(mine.v)}
  ELSE {OwnValue(mine, key) : key \in OwnKeySet(mine) \ OwnKeySet(other)}

ChildrenOneSided(x) ==
  LET c == x.children
      added == {i \in 1..Len(c) : c[i].type = "added"}
      removed == {i \in 1..Len(c) : c[i].type = "removed"}
      newOnly == OnlyIn(x, x.newValue, x.oldValue)
      oldOnly == OnlyIn(x, x.oldValue, x.newValue)
  IN  /\ \A i \in added : ~Has(c[i], "children") /\ c[i].newValue \in newOnly
      /\ \A i \in removed : ~Has(c[i], "children") /\ c[i].oldValue \in oldOnly
      /\ added # {} => newOnly # {}
      /\ removed # {} => oldOnly # {}

C3_Classification ==
  Compared =>
    /\ diffs[1].type \in {"modified", "unchanged"}
    /\ \A i \in Positions :
         LET x == Tree[i]
         IN  /\ x.type \in DiffTypes
             /\ Has(x, "children") =>
                  /\ x.type = (IF AllUnchanged(x.children) THEN "unchanged" ELSE "modified")
                  /\ ChildrenOneSided(x)
             /\ (~Has(x, "children") /\ Both(x)) =>
                  x.type = (IF SameValue(x.oldValue, x.newValue)
                            THEN "unchanged" ELSE "modified")

\* a container whose only change is an added or a removed child, next to an
\* unchanged leaf
C3_Witness ==
  /\ Compared
  /\ \E i \in Positions :
       /\ Has(Tree[i], "children")
       /\ Tree[i].type = "modified"
       /\ \E j \in 1..Len(Tree[i].children) : Tree[i].children[j].type = "unchanged"
       /\ \A j \in 1..Len(Tree[i].children) :
            Tree[i].children[j].type \in {"unchanged", "added", "removed"}

\* the paths the properties expect, written out independently of the code
ExpectedItemPath(raw, i) == raw \o "[" \o ToString(i) \o "]"

ExpectedKeyPath(raw, key) == IF raw = "" THEN key ELSE raw \o "." \o key

Shown(p) == IF p = "" THEN "/" ELSE p

Smaller(a, b) == IF a <= b THEN a ELSE b

Larger(a, b) == IF a >= b THEN a ELSE b

ArrayNode(x) ==
  Has(x, "children") /\ x.oldValue.k = "array" /\ x.newValue.k = "array"

ObjectNode(x) ==
  Has(x, "children") /\ x.oldValue.k = "object" /\ x.newValue.k = "object"

(***************************************************************************)
(* C4 - Type-change atomicity: where the old and the new value are of      *)
(* different kinds and at least one is an array or an object, the          *)
(* comparison yields exactly one "modified" node without children that     *)
(* carries the whole old value and the whole new value; nothing below      *)
(* either value is compared.  This holds at the top level and at every     *)
(* index or key the comparison descends to.                                *)
(***************************************************************************)
KindChange(o, n) == o.k # n.k /\ (IsContainer(o) \/ IsContainer(n))

Replaced(o, n, p) ==
  [path |-> p, type |-> "modified", oldValue |-> o, newValue |-> n]

AtomicBelow(x) ==
  LET o == x.oldValue
      n == x.newValue
      c == x.children
  IN  /\ ArrayNode(x) =>
           /\ Len(c) = Larger(Len(o.v), Len(n.v))
           /\ \A i \in 1..Smaller(Len(o.v), Len(n.v)) :
                KindChange(o.v[i], n.v[i]) =>
                  \E raw \in RawPaths(x) :
                    c[i] = Replaced(o.v[i], n.v[i], ExpectedItemPath(raw, i - 1))
      /\ ObjectNode(x) =>
           /\ Len(c) = Cardinality(OwnKeySet(o) \cup OwnKeySet(n))
           /\ \A key \in OwnKeySet(o) \cap OwnKeySet(n) :
                KindChange(OwnValue(o, key), OwnValue(n, key)) =>
                  \E raw \in RawPaths(x), j \in 1..Len(c) :
                    c[j] = Replaced(OwnValue(o, key), OwnValue(n, key),
                                    Shown(ExpectedKeyPath(raw, key)))

C4_TypeChangeAtomic ==
  Compared =>
    /\ KindChange(oldObj, newObj) => diffs = <<Replaced(oldObj, newObj, "/")>>
    /\ \A i \in Positions :
         LET x == Tree[i]
         IN  /\ (Both(x) /\ KindChange(x.oldValue, x.newValue)) =>
                  (~Has(x, "children") /\ x.type = "modified")
             /\ Has(x, "children") => AtomicBelow(x)

\* {"a": 1} against {"a": [1]}: one leaf at a, old 1, new [1]
C4_Witness ==
  /\ Compared
  /\ oldObj = Obj(<< <<"a", Num(1)>> >>)
  /\ newObj = Obj(<< <<"a", Arr(<<Num(1)>>)>> >>)
  /\ diffs[1].children = <<Replaced(Num(1), Arr(<<Num(1)>>), "a")>>

(***************************************************************************)
(* C5 - Positional array comparison: the node of two arrays has            *)
(* max(len(old), len(new)) children and the i-th has path <path>[i]; at an *)
(* index the new array lacks it is a "removed" leaf with old[i] alone, at  *)
(* an index the old array lacks an "added" leaf with new[i] alone, and at  *)
(* an index of both it is the comparison of old[i] with new[i].            *)
(***************************************************************************)
PositionalAt(x, raw) ==
  LET o == x.oldValue.v
      n == x.newValue.v
      c == x.children
  IN  /\ Len(c) = Larger(Len(o), Len(n))
      /\ \A i \in 0..(Len(c) - 1) :
           LET p == ExpectedItemPath(raw, i)
           IN  IF i >= Len(n) THEN c[i + 1] = [path |-> p, type |-> "removed", oldValue |-> o[i + 1]]
               ELSE IF i >= Len(o) THEN c[i + 1] = [path |-> p, type |-> "added", newValue |-> n[i + 1]]
               ELSE /\ c[i + 1].path = p
                    /\ Both(c[i + 1])
                    /\ c[i + 1].oldValue = o[i + 1]
                    /\ c[i + 1].newValue = n[i + 1]
                    /\ <<c[i + 1]>> = compareJSON(o[i + 1], n[i + 1], p)

C5_PositionalArrays ==
  Compared =>
    /\ (oldObj.k = "array" /\ newObj.k = "array") =>
         (ArrayNode(diffs[1]) /\ PositionalAt(diffs[1], ""))
    /\ \A i \in Positions :
         ArrayNode(Tree[i]) => \E raw \in RawPaths(Tree[i]) : PositionalAt(Tree[i], raw)

\* [1,2] against [2,1]: a "modified" leaf at each index, no shift detected
C5_Witness ==
  /\ Compared
  /\ oldObj = Arr(<<Num(1), Num(2)>>)
  /\ newObj = Arr(<<Num(2), Num(1)>>)
  /\ diffs[1].children =
       <<Replaced(Num(1), Num(2), "[0]"), Replaced(Num(2), Num(1), "[1]")>>

(***************************************************************************)
(* C6 - Object key add/remove: for two objects and every key k among the   *)
(* own keys of either (any string, the names of built-in properties        *)
(* included), a key of new only yields an "added" leaf with newValue       *)
(* alone, a key of old only a "removed" leaf with oldValue alone, and a    *)
(* key of both the comparison of the two values; the child's path is       *)
(* <path>.<k>, or k alone when path is empty.                              *)
(***************************************************************************)
KeyChildOK(x, raw, key, child) ==
  LET o == x.oldValue
      n == x.newValue
      p == ExpectedKeyPath(raw, key)
  IN  IF key \notin OwnKeySet(o)
      THEN child = [path |-> p, type |-> "added", newValue |-> OwnValue(n, key)]
      ELSE IF key \notin OwnKeySet(n)
      THEN child = [path |-> p, type |-> "removed", oldValue |-> OwnValue(o, key)]
      ELSE /\ child.path = p
           /\ Both(child)
           /\ child.oldValue = OwnValue(o, key)
           /\ child.newValue = OwnValue(n, key)

KeyedAt(x, raw, keys) ==
  /\ Len(x.children) = Cardinality(OwnKeySet(x.oldValue) \cup OwnKeySet(x.newValue))
  /\ \A key \in (OwnKeySet(x.oldValue) \cup OwnKeySet(x.newValue)) \cap keys :
       \E j \in 1..Len(x.children) : KeyChildOK(x, raw, key, x.children[j])

KeyedEverywhere(keys) ==
  /\ (oldObj.k = "object" /\ newObj.k = "object") =>
       (ObjectNode(diffs[1]) /\ KeyedAt(diffs[1], "", keys))
  /\ \A i \in Positions :
       ObjectNode(Tree[i]) => \E raw \in RawPaths(Tree[i]) : KeyedAt(Tree[i], raw, keys)

C6_KeyAddRemove == Compared => KeyedEverywhere(Keys \cup NestedKeys)

\* the same statement for the keys that are neither empty nor a property name
\* of Object.prototype
C6_OrdinaryKeys ==
  Compared => KeyedEverywhere((Keys \cup NestedKeys) \ (ObjectPrototypeKeys \cup {""}))

\* the same statement without the names of Object.prototype alone
C6_NoBuiltinNames ==
  Compared => KeyedEverywhere((Keys \cup NestedKeys) \ ObjectPrototypeKeys)

(***************************************************************************)
(* C7 - Totality and single result: for every pair of values and every     *)
(* path compareJSON returns a sequence of exactly one node; called with    *)
(* the empty path, that node's path is "/", and with any other path it is  *)
(* that path.                                                              *)
(***************************************************************************)
SomePaths == {"", "/", "a.b[0]"}

C7_SingleResult ==
  Compared =>
    /\ Len(diffs) = 1
    /\ diffs[1].path = "/"
    /\ diffs[1].type \in DiffTypes
    /\ \A p \in SomePaths :
         LET r == compareJSON(oldObj, newObj, p)
         IN  /\ Len(r) = 1
             /\ r[1].path = (IF p = "" THEN "/" ELSE p)
    \* every call below the top level returned one node as well
    /\ \A i \in Positions :
         LET x == Tree[i]
         IN  Has(x, "children") =>
               Len(x.children) =
                 (IF x.oldValue.k = "array"
                  THEN Larger(Len(x.oldValue.v), Len(x.newValue.v))
                  ELSE Cardinality(OwnKeySet(x.oldValue) \cup OwnKeySet(x.newValue)))

\* two containers of different kinds, and two containers of the same kind
\* with a container inside: each is answered by one node
C7_Witness ==
  /\ Compared
  /\ IsContainer(oldObj) /\ IsContainer(newObj)
  /\ Len(diffs) = 1
  /\ \E i \in Positions : i > 1 /\ Has(Tree[i], "children")

(***************************************************************************)
(* C8 - Field presence: in every node oldValue is present iff the type is  *)
(* not "added", newValue is present iff the type is not "removed", and     *)
(* children is present only on the node of two arrays or of two objects:   *)
(* primitive, type-mismatch, added and removed nodes have none, even when  *)
(* the value they carry is a container.                                    *)
(***************************************************************************)
C8_FieldPresence ==
  Compared =>
    \A i \in Positions :
      LET x == Tree[i]
      IN  /\ {"path", "type"} \subseteq DOMAIN x
          /\ DOMAIN x \subseteq {"path", "type", "oldValue", "newValue", "children"}
          /\ Has(x, "oldValue") <=> x.type # "added"
          /\ Has(x, "newValue") <=> x.type # "removed"
          /\ Has(x, "children") =>
               /\ Both(x)
               /\ x.oldValue.k = x.newValue.k
               /\ IsContainer(x.oldValue)
          /\ (Both(x) /\ x.oldValue.k = x.newValue.k /\ IsContainer(x.oldValue)) =>
               Has(x, "children")

\* an added and a removed leaf that each carry a container
C8_Witness ==
  /\ Compared
  /\ \E i, j \in Positions :
       /\ Tree[i].type = "added" /\ IsContainer(Tree[i].newValue)
       /\ Tree[j].type = "removed" /\ IsContainer(Tree[j].oldValue)

(***************************************************************************)
(* C9 - Addressable paths: within the tree of compareJSON(a, b, "") no two *)
(* distinct nodes have the same path, for all keys (the empty string and   *)
(* keys with '.' or '[i]' included), so that looking a node up by its path *)
(* returns that node.                                                      *)
(***************************************************************************)
C9_AddressablePaths ==
  Compared =>
    /\ \A i, j \in Positions : Tree[i].path = Tree[j].path => i = j
    /\ \A i \in Positions : findDiffByPath(diffs, Tree[i].path) = Tree[i]

\* whether a key is used anywhere in a document
RECURSIVE UsesKey(_, _)
UsesKey(value, key) ==
  CASE value.k = "array" -> \E i \in 1..Len(value.v) : UsesKey(value.v[i], key)
    [] value.k = "object" ->
         \E i \in 1..Len(value.v) : value.v[i][1] = key \/ UsesKey(value.v[i][2], key)
    [] OTHER -> FALSE

\* the same statement for the explored documents that do not use the empty key
C9_WithoutEmptyKey ==
  (Compared /\ ~UsesKey(oldObj, "") /\ ~UsesKey(newObj, "")) =>
    /\ \A i, j \in Positions : Tree[i].path = Tree[j].path => i = j
    /\ \A i \in Positions : findDiffByPath(diffs, Tree[i].path) = Tree[i]

(***************************************************************************)
(* C10 - Statistics count every node once: getDiffStats gives, for each of *)
(* added, removed, modified and unchanged, the number of nodes of that     *)
(* type in the forest, containers and leaves at every depth, so the four   *)
(* counts sum to the number of nodes.  Checked of the stored diff and of   *)
(* every children list in it (a forest of several roots).                  *)
(***************************************************************************)
CountOf(forest, type) ==
  LET nodes == NodesOf(forest)
  IN  Cardinality({i \in 1..Len(nodes) : nodes[i].type = type})

CountsEveryNode(result, forest) ==
  /\ DOMAIN result = DiffTypes
  /\ \A type \in DiffTypes : result[type] = CountOf(forest, type)
  /\ result.added + result.removed + result.modified + result.unchanged
       = Len(NodesOf(forest))

C10_StatsCountNodes ==
  pc = "rendered" =>
    /\ CountsEveryNode(stats, diffs)
    /\ \A i \in Positions :
         Has(Tree[i], "children") =>
           CountsEveryNode(getDiffStats(Tree[i].children), Tree[i].children)

\* counts of a tree three levels deep: a modified container inside a modified
\* container, next to a child that one side alone has
C10_Witness ==
  /\ pc = "rendered"
  /\ stats.modified >= 3
  /\ stats.added + stats.removed >= 1
  /\ \E i \in Positions :
       /\ i > 1
       /\ Has(Tree[i], "children")
       /\ Tree[i].type = "modified"

(***************************************************************************)
(* C11 - Statistics of a modification two levels deep.  As claimed: for    *)
(* {"a":{"b":1}} against {"a":{"b":2}} the statistics of the comparison    *)
(* report modified = 2 (the object at a and the leaf at a.b).  As amended:  *)
(* they report modified = 3 and nothing else, for the top-level node "/"   *)
(* is "modified" too and counts like the object at a and the leaf at a.b.  *)
(***************************************************************************)
TwoDeepOld == Obj(<< <<"a", Obj(<< <<"b", Num(1)>> >>)>> >>)

TwoDeepNew == Obj(<< <<"a", Obj(<< <<"b", Num(2)>> >>)>> >>)

TwoDeepRendered ==
  pc = "rendered" /\ oldObj = TwoDeepOld /\ newObj = TwoDeepNew

\* the claim as stated
C11_ModifiedIsTwo == TwoDeepRendered => stats.modified = 2

\* the claim as amended
C11_ModifiedIsThree ==
  TwoDeepRendered =>
    /\ stats = [added |-> 0, removed |-> 0, modified |-> 3, unchanged |-> 0]
    /\ Len(Tree) = 3
    /\ Tree[1].path = "/" /\ Tree[1].type = "modified"
    /\ Tree[2].path = "a" /\ Tree[2].type = "modified" /\ Has(Tree[2], "children")
    /\ Tree[3].path = "a.b" /\ Tree[3].type = "modified" /\ ~Has(Tree[3], "children")

C11_Witness == TwoDeepRendered /\ stats.modified > 0

(***************************************************************************)
(* C12 - Deep equality: deepEqual(a, b) is true iff a and b are the same   *)
(* primitive kind with the same content, or arrays of equal length with    *)
(* deep-equal elements position by position, or objects with the same key  *)
(* set, in any key order, and deep-equal values per key; it is false for   *)
(* null against a non-null value and for an array against an object; and   *)
(* it is reflexive, symmetric and transitive over JSON values.             *)
(***************************************************************************)
C12_DeepEquality ==
  pc = "compared" =>
    /\ deepEqual(oldObj, newObj) = SameValue(oldObj, newObj)
    /\ ((oldObj.k = "null") # (newObj.k = "null")) => ~deepEqual(oldObj, newObj)
    /\ ({oldObj.k, newObj.k} = {"array", "object"}) => ~deepEqual(oldObj, newObj)
    /\ deepEqual(oldObj, oldObj)
    /\ deepEqual(oldObj, newObj) = deepEqual(newObj, oldObj)
    /\ deepEqual(oldObj, newObj) =>
         \A c \in Values : deepEqual(newObj, c) => deepEqual(oldObj, c)

\* two objects with the same entries in a different key order are deep-equal
C12_Witness ==
  /\ pc = "compared"
  /\ oldObj.k = "object" /\ newObj.k = "object"
  /\ Len(oldObj.v) = 2
  /\ ObjectKeys(oldObj) # ObjectKeys(newObj)
  /\ deepEqual(oldObj, newObj)

(***************************************************************************)
(* C14 - formatValue maps null to the text null, a string s to s wrapped   *)
(* in double quotes, an array of n elements to "[n items]", an object with *)
(* n own keys to "{n keys}", and a boolean or a number to its literal      *)
(* text.  Checked of every JSON value the rendered tree carries.           *)
(***************************************************************************)
ExpectedText(value) ==
  CASE value.k = "null" -> "null"
    [] value.k = "string" -> ToString(value.v)
    [] value.k = "array" -> "[" \o ToString(Len(value.v)) \o " items]"
    [] value.k = "object" ->
         "{" \o ToString(Cardinality(OwnKeySet(value))) \o " keys}"
    [] value.k = "boolean" -> (IF value.v THEN "true" ELSE "false")
    [] value.k = "number" -> ToString(value.v)

JsonKinds == {"null", "boolean", "number", "string", "array", "object"}

FormatsAs(value) ==
  value.k \in JsonKinds => formatValue(value) = ExpectedText(value)

C14_FormatValue ==
  pc = "rendered" =>
    /\ FormatsAs(oldObj) /\ FormatsAs(newObj)
    /\ \A i \in Positions :
         /\ Has(Tree[i], "oldValue") => FormatsAs(Tree[i].oldValue)
         /\ Has(Tree[i], "newValue") => FormatsAs(Tree[i].newValue)

\* an array of two items rendered next to a string
C14_Witness ==
  /\ pc = "rendered"
  /\ oldObj = Arr(<<Num(1), Num(2)>>) /\ formatValue(oldObj) = "[2 items]"
  /\ newObj = Str("a") /\ formatValue(newObj) = "\"a\""

(***************************************************************************)
(* C15 - Change propagates to the root: the top-level node is never        *)
(* "added" or "removed", and when any node is not "unchanged" every        *)
(* ancestor of it, up to the top-level node, is "modified".                *)
(***************************************************************************)
SomeChangeIn(forest) ==
  \E j \in 1..Len(NodesOf(forest)) : NodesOf(forest)[j].type # "unchanged"

C15_ChangePropagates ==
  Compared =>
    /\ diffs[1].type \notin {"added", "removed"}
    /\ \A i \in Positions :
         (Has(Tree[i], "children") /\ SomeChangeIn(Tree[i].children)) =>
           Tree[i].type = "modified"
    /\ SomeChangeIn(diffs) => diffs[1].type = "modified"

\* a change two levels below the root, next to an unchanged sibling
C15_Witness ==
  /\ Compared
  /\ diffs[1].type = "modified"
  /\ \E i \in Positions :
       /\ i > 1
       /\ Has(Tree[i], "children")
       /\ SomeChangeIn(Tree[i].children)
  /\ \E j \in 1..Len(diffs[1].children) : diffs[1].children[j].type = "unchanged"

TextsParseBack ==
  /\ validateJSON(leftJson) = [isValid |-> TRUE, parsed |-> oldObj]
  /\ validateJSON(rightJson) = [isValid |-> TRUE, parsed |-> newObj]
  /\ JSONparse(minifyJSON(oldObj)) = [ok |-> TRUE, value |-> oldObj]

(***************************************************************************)
(* C13  Parse failure never reaches the engine.                            *)
(***************************************************************************)
Validates(text) == validateJSON(text).isValid

\* the notification handleCompare raises for the first side that fails
InvalidInput ==
  LET leftValidation == validateJSON(leftJson)
      rightValidation == validateJSON(rightJson)
  IN  IF ~leftValidation.isValid
      THEN Toast("Invalid JSON", "Original JSON: " \o leftValidation.error,
                 "destructive")
      ELSE Toast("Invalid JSON", "Modified JSON: " \o rightValidation.error,
                 "destructive")

\* the state handleCompare leaves (it changes neither text)
AfterCompare ==
  handler = "handleCompare" =>
    /\ engineCalled <=> (Validates(leftJson) /\ Validates(rightJson))
    /\ engineCalled =>
         /\ oldObj = validateJSON(leftJson).parsed
         /\ newObj = validateJSON(rightJson).parsed
         /\ diffs = compareJSON(oldObj, newObj, "")
    /\ ~engineCalled => toast = InvalidInput

\* the values some text of the editors parses to
Parsed ==
  PageValues \cup {sampleLeft, sampleRight}

\* diffs is empty or the result of compareJSON on two parsed values
DiffsFromParsedValues ==
  \/ diffs = <<>>
  \/ /\ oldObj \in Parsed
     /\ newObj \in Parsed
     /\ diffs = compareJSON(oldObj, newObj, "")

\* a compare that does not call the engine leaves the stored diffs alone
FailureKeepsDiffs ==
  (handler' = "handleCompare" /\ ~engineCalled') => diffs' = diffs

\* C13: handleCompare calls compareJSON only when both texts validate; when
\* either text is empty or fails to parse the engine is not called, the
\* stored diffs keep their previous value, an "Invalid JSON" notification is
\* raised and isComparing is false when the handler returns; so the stored
\* diffs are always empty or the result of compareJSON on two parsed values.
C13_ParseFailureNeverReachesEngine ==
  /\ [](~isComparing /\ AfterCompare /\ DiffsFromParsedValues)
  /\ [][FailureKeepsDiffs]_vars

\* a failed compare after a successful one: the earlier diffs are still stored
C13_Witness ==
  /\ handler = "handleCompare"
  /\ ~engineCalled
  /\ Validates(leftJson)
  /\ IsBlank(rightJson)
  /\ toast.title = "Invalid JSON"
  /\ diffs # <<>>

(***************************************************************************)
(* C17  handleFormat fails exactly on invalid text.                        *)
(***************************************************************************)
FormatFailed == Toast("Format Failed", "Cannot format invalid JSON", "destructive")

TextOf(side) == IF side = "left" THEN leftJson ELSE rightJson

\* a handleFormat(side) step that treats the side's text as Accepts says:
\* rejected text is reported, accepted text is replaced by its formatted form
FormatStep(side, Accepts(_)) ==
  handler' = "handleFormat(" \o side \o ")" =>
    LET validation == validateJSON(TextOf(side))
        formatted == IF side = "left" THEN leftJson' ELSE rightJson'
        other == IF side = "left" THEN rightJson ELSE leftJson
        otherAfter == IF side = "left" THEN rightJson' ELSE leftJson'
    IN  /\ (toast' = FormatFailed) <=> ~Accepts(validation)
        /\ Accepts(validation) =>
             formatted = formatJSON(validation.parsed, DefaultIndent)
        /\ ~Accepts(validation) => formatted = TextOf(side)
        /\ otherAfter = other
        /\ diffs' = diffs

IsValid(validation) == validation.isValid

IsValidAndTruthy(validation) ==
  validation.isValid /\ Truthy(validation.parsed)

\* C17: handleFormat reports "Format Failed / Cannot format invalid JSON" iff
\* the chosen side's text is not valid JSON; every text validateJSON accepts
\* (null, false, 0 and "" included) is replaced by formatJSON of its parsed
\* value, and the other side's text and the stored diffs are unchanged.
C17_FormatFailsIffInvalid ==
  [][\A side \in Sides : FormatStep(side, IsValid)]_vars

\* what the handler does: a valid text whose value is null, false, 0 or ""
\* is reported as failed and left as it is
C17_FormatFailsOnFalsyValues ==
  [][\A side \in Sides : FormatStep(side, IsValidAndTruthy)]_vars

\* handleFormat("left") on the valid text 0 has reported a failure
C17_FalsyTextRejected ==
  /\ handler = "handleFormat(left)"
  /\ leftJson = <<Literal(Num(0))>>
  /\ Validates(leftJson)
  /\ toast = FormatFailed

====
